---- MODULE Spec2Model ----
(***************************************************************************)
(* Model of the appointment queries of src/main.py:                        *)
(*   get_active_appointment   (GET /api/appointments/active)               *)
(*   get_current_appointment  (GET /api/patients/{id}/current-appointment) *)
(* over the content of data/appointments.json and the server clock.        *)
(*                                                                         *)
(* JSON values are tagged records [t, v]; a dict key that is missing has   *)
(* the tag "absent", a JSON null the tag "null".  Instants are whole       *)
(* minutes: a datetime is [date, minute, aware] with date a day ordinal    *)
(* and minute the minute of that day.  A start string is kept in the       *)
(* shape it has in the file, [t, date, sep, time, tz], so that parsing it  *)
(* (fromisoformat) and comparing it as a string (the sort key) are two     *)
(* different computations.                                                 *)
(***************************************************************************)
EXTENDS Integers, Sequences, FiniteSets, TLC

VARIABLES file_exists, appointments, call, response,
          patients_exists, patients, gen_pc,
          appointments_12_12, appointments_12_15, all_appointments

\* the state of one run of scripts/generate_data.py: patients.json (the ids
\* of its records), the position in main() and its local lists
genvars == <<patients_exists, patients, gen_pc,
             appointments_12_12, appointments_12_15, all_appointments>>

vars == <<file_exists, appointments, call, response, genvars>>

(* ------------------------------ bounds -------------------------------- *)

MaxAppointments == 2

\* the largest id of a record that is in a data file before the generator runs
MaxExistingId == 3

(* ------------------------- program constants -------------------------- *)

DefaultSlotDuration == 30

EstOffsetHours == -5

\* generate_appointments_for_date(date_str, start_hour=9, end_hour=16, slot_duration=30)
StartHour == 9

EndHour == 16

GenSlotDuration == 30

\* len(ADDITIONAL_PATIENTS)
AdditionalPatients == 10

(* ---------------------------- JSON values ----------------------------- *)

Absent == [t |-> "absent", v |-> 0]

Null == [t |-> "null", v |-> 0]

JInt(n) == [t |-> "int", v |-> n]

\* dict.get(key): a missing key reads as None
Get(x) == IF x.t = "absent" THEN Null ELSE x

\* dict.get(key, default): only a missing key takes the default
GetDefault(x, d) == IF x.t = "absent" THEN JInt(d) ELSE x

\* Python truth value of a JSON value: None and 0 are false
Truthy(x) == x.t = "int" /\ x.v # 0

(* ----------------------------- datetimes ------------------------------ *)

DT(date, hour, min) == [date |-> date, minute |-> hour * 60 + min, aware |-> FALSE]

\* minutes since day 0 00:00
Abs(d) == d.date * (24 * 60) + d.minute

\* datetime + timedelta(minutes = m): carries into the date
PlusMinutes(d, m) ==
    LET a == Abs(d) + m
    IN  [date |-> a \div (24 * 60), minute |-> a % (24 * 60), aware |-> d.aware]

\* datetime.replace(tzinfo = None)
ReplaceTzNone(d) == [d EXCEPT !.aware = FALSE]

\* the exception raised by comparing two datetimes, "none" when comparable
CompareExc(a, b) == IF a.aware # b.aware THEN "TypeError" ELSE "none"

(* --------------------------- start strings ---------------------------- *)

IsoT(date, hour, min) ==
    [t |-> "iso", date |-> date, sep |-> "T", time |-> hour * 60 + min, tz |-> FALSE]

IsoSpace(date, hour, min) == [IsoT(date, hour, min) EXCEPT !.sep = " "]

IsoTz(date, hour, min) == [IsoT(date, hour, min) EXCEPT !.tz = TRUE]

StartAbsent == [IsoT(0, 0, 0) EXCEPT !.t = "absent"]

StartNonStr == [IsoT(0, 0, 0) EXCEPT !.t = "nonstr"]

StartBad == [IsoT(0, 0, 0) EXCEPT !.t = "bad"]

\* the exception of datetime.fromisoformat(apt["start"]), "none" when it parses
FromIsoformatExc(s) ==
    CASE s.t = "absent" -> "KeyError"
      [] s.t = "nonstr" -> "TypeError"
      [] s.t = "bad" -> "ValueError"
      [] OTHER -> "none"

\* datetime.fromisoformat of a string it accepts: the separator is dropped,
\* a UTC offset suffix makes the result timezone-aware
FromIsoformat(s) == [date |-> s.date, minute |-> s.time, aware |-> s.tz]

\* ord(' ') < ord('T')
SepRank(c) == IF c = " " THEN 0 ELSE 1

\* a < b as Python strings, for "YYYY-MM-DD?HH:MM:SS[+00:00]": the fields are
\* zero-padded and of fixed width, so the strings compare field by field,
\* and a string that is a proper prefix of another is the smaller one
StrLess(a, b) ==
    \/ a.date < b.date
    \/ a.date = b.date /\ SepRank(a.sep) < SepRank(b.sep)
    \/ a.date = b.date /\ a.sep = b.sep /\ a.time < b.time
    \/ a.date = b.date /\ a.sep = b.sep /\ a.time = b.time /\ ~a.tz /\ b.tz

(* ------------------------- stable sort by start ----------------------- *)

\* the key of lines 124 and 153, x.get("start", ""); every record that
\* reaches a sort has a start that fromisoformat accepted
SortKey(x) == x.start

RECURSIVE InsertByKey(_, _)
\* x goes before the first element whose key is greater: equal keys keep
\* their input order, as list.sort does
InsertByKey(sorted, x) ==
    IF sorted = <<>> THEN <<x>>
    ELSE IF StrLess(SortKey(x), SortKey(Head(sorted))) THEN <<x>> \o sorted
    ELSE <<Head(sorted)>> \o InsertByKey(Tail(sorted), x)

RECURSIVE SortByStartFrom(_, _)
SortByStartFrom(rest, sorted) ==
    IF rest = <<>> THEN sorted
    ELSE SortByStartFrom(Tail(rest), InsertByKey(sorted, Head(rest)))

SortByStart(xs) == SortByStartFrom(xs, <<>>)

(* ------------------------------ responses ----------------------------- *)

NoResponse ==
    [kind |-> "none", status |-> 0, shape |-> "none", body |-> <<>>, detail |-> <<>>]

\* a JSON object: one appointment record
OkRecord(r) ==
    [kind |-> "ok", status |-> 200, shape |-> "object", body |-> <<r>>, detail |-> <<>>]

\* the empty JSON object {}
OkEmptyDict ==
    [kind |-> "ok", status |-> 200, shape |-> "empty_object", body |-> <<>>, detail |-> <<>>]

\* None, serialised as JSON null
OkNone ==
    [kind |-> "ok", status |-> 200, shape |-> "null", body |-> <<>>, detail |-> <<>>]

HttpError(status, detail) ==
    [kind |-> "error", status |-> status, shape |-> "detail", body |-> <<>>, detail |-> detail]

(* --------------------------- load_json_data --------------------------- *)

LoadJsonData(exists, content) ==
    IF ~exists
    THEN [exc |-> "HTTPException", status |-> 500,
          detail |-> <<"Data file appointments.json not found">>, value |-> <<>>]
    ELSE [exc |-> "none", status |-> 0, detail |-> <<>>, value |-> content]

(* ------------------------ get_active_appointment ---------------------- *)

\* the offset applied to the time of day only, the date kept
NormalizedNowSameDay(utc_now) ==
    [date |-> utc_now.date,
     minute |-> (utc_now.minute + EstOffsetHours * 60) % (24 * 60),
     aware |-> FALSE]

\* now = (utc_now + est_offset).replace(tzinfo=None)
NormalizedNow(utc_now) == ReplaceTzNone(PlusMinutes(utc_now, EstOffsetHours * 60))

\* the filter of line 99
EligibleActive(apt) == apt.status = "booked" /\ Truthy(Get(apt.patient_id))

\* timedelta(minutes = d) raises TypeError unless d is a number
TimedeltaExc(d) == IF d.t = "int" THEN "none" ELSE "TypeError"

\* the first exception raised in the try block of lines 101-110
TryBlockExc(apt, now) ==
    IF FromIsoformatExc(apt.start) # "none" THEN FromIsoformatExc(apt.start)
    ELSE IF TimedeltaExc(GetDefault(apt.slot_duration, DefaultSlotDuration)) # "none"
         THEN TimedeltaExc(GetDefault(apt.slot_duration, DefaultSlotDuration))
    ELSE CompareExc(FromIsoformat(apt.start), now)

\* the window with its end included
InWindowClosed(start_time, now, end_time) ==
    Abs(start_time) <= Abs(now) /\ Abs(now) <= Abs(end_time)

\* start_time <= now < end_time
InWindow(start_time, now, end_time) ==
    Abs(start_time) <= Abs(now) /\ Abs(now) < Abs(end_time)

\* lines 103-108 for a record on which the try block raises nothing
IsActive(apt, now) ==
    LET start_time == FromIsoformat(apt.start)
        duration_minutes == GetDefault(apt.slot_duration, DefaultSlotDuration)
        end_time == PlusMinutes(start_time, duration_minutes.v)
    IN  InWindow(start_time, now, end_time)

\* except (ValueError, KeyError)
CaughtInLoop(e) == e \in {"ValueError", "KeyError"}

RECURSIVE ScanActive(_, _, _)
\* the loop of lines 98-114: the matching records in input order, or the
\* exception that left the loop
ScanActive(appts, now, acc) ==
    IF appts = <<>> THEN [exc |-> "none", active |-> acc]
    ELSE LET apt == Head(appts)
             e == TryBlockExc(apt, now)
         IN  IF ~EligibleActive(apt) THEN ScanActive(Tail(appts), now, acc)
             ELSE IF e = "none"
                  THEN ScanActive(Tail(appts), now,
                                  IF IsActive(apt, now) THEN Append(acc, apt) ELSE acc)
             ELSE IF CaughtInLoop(e) THEN ScanActive(Tail(appts), now, acc)
             ELSE [exc |-> e, active |-> acc]

\* a catch-all that answers with the empty result
CatchAllSwallow(e) == OkEmptyDict

\* except Exception as e: raise HTTPException(500, "Error fetching ...: " + str(e))
CatchAll(e) == HttpError(500, <<"Error fetching active appointment", e>>)

\* the whole sorted list as the answer
SelectActiveList(active_appointments) ==
    [kind |-> "ok", status |-> 200, shape |-> "list",
     body |-> SortByStart(active_appointments), detail |-> <<>>]

\* lines 124-127
SelectActive(active_appointments) == OkRecord(Head(SortByStart(active_appointments)))

ActiveAppointmentResponse(exists, content, utc_now) ==
    LET loaded == LoadJsonData(exists, content)
        scan == ScanActive(loaded.value, NormalizedNow(utc_now), <<>>)
    IN  IF loaded.exc # "none" THEN CatchAll(loaded.exc)
        ELSE IF scan.exc # "none" THEN CatchAll(scan.exc)
        ELSE IF scan.active = <<>> THEN OkEmptyDict
        ELSE SelectActive(scan.active)

(* ----------------------- get_current_appointment ---------------------- *)

\* datetime.now(): the naive wall clock of the server, whose zone is UTC
ServerNow(utc_now) == ReplaceTzNone(utc_now)

\* the filter of line 144
EligibleCurrent(apt, patient_id) ==
    Get(apt.patient_id) = JInt(patient_id) /\ apt.status = "booked"

\* the first exception raised by lines 145-146
CurrentExc(apt, now) ==
    IF FromIsoformatExc(apt.start) # "none" THEN FromIsoformatExc(apt.start)
    ELSE CompareExc(FromIsoformat(apt.start), now)

\* start_time >= now
IsUpcoming(apt, now) == Abs(FromIsoformat(apt.start)) >= Abs(now)

RECURSIVE ScanUpcoming(_, _, _, _)
\* the loop of lines 143-147, which has no try block
ScanUpcoming(appts, patient_id, now, acc) ==
    IF appts = <<>> THEN [exc |-> "none", upcoming |-> acc]
    ELSE LET apt == Head(appts)
             e == CurrentExc(apt, now)
         IN  IF ~EligibleCurrent(apt, patient_id)
             THEN ScanUpcoming(Tail(appts), patient_id, now, acc)
             ELSE IF e = "none"
                  THEN ScanUpcoming(Tail(appts), patient_id, now,
                                    IF IsUpcoming(apt, now) THEN Append(acc, apt) ELSE acc)
             ELSE [exc |-> e, upcoming |-> acc]

\* lines 153-154
SelectUpcoming(upcoming) == OkRecord(Head(SortByStart(upcoming)))

\* an exception that leaves the handler: an HTTPException keeps its status
\* and detail, anything else is the framework's 500
Unhandled(e) == HttpError(500, <<"Internal Server Error", e>>)

CurrentAppointmentResponse(exists, content, patient_id, utc_now) ==
    LET loaded == LoadJsonData(exists, content)
        scan == ScanUpcoming(loaded.value, patient_id, ServerNow(utc_now), <<>>)
    IN  IF loaded.exc # "none" THEN HttpError(loaded.status, loaded.detail)
        ELSE IF scan.exc # "none" THEN Unhandled(scan.exc)
        ELSE IF scan.upcoming = <<>> THEN OkNone
        ELSE SelectUpcoming(scan.upcoming)

(* ------------------------------- inputs ------------------------------- *)

\* datetime.now(timezone.utc) at whole minutes of 2025-12-12 (day 12)
UtcAt(date, hour, min) == [DT(date, hour, min) EXCEPT !.aware = TRUE]

ClockReadings ==
    { UtcAt(12, 4, 50), UtcAt(12, 5, 10),
      UtcAt(12, 14, 0), UtcAt(12, 14, 10), UtcAt(12, 14, 20), UtcAt(12, 14, 30) }

PatientIdArgs == {0, 7}

\* a well-formed booked slot, as scripts/generate_data.py writes them
Booked(start) ==
    [status |-> "booked", patient_id |-> JInt(7), start |-> start,
     slot_duration |-> JInt(DefaultSlotDuration)]

Nine == Booked(IsoT(12, 9, 0))

\* records of the file, without their id: well-formed booked slots, and
\* records that differ from one in a single field (or are an unbooked slot)
RecordShapes ==
    { Booked(IsoT(12, 9, 0)), Booked(IsoT(12, 9, 10)), Booked(IsoT(11, 23, 50)) }
    \cup { [Nine EXCEPT !.status = "available"],
           [Nine EXCEPT !.status = "available", !.patient_id = Null] }
    \cup { [Nine EXCEPT !.patient_id = p] : p \in {Absent, Null, JInt(0)} }
    \cup { [Nine EXCEPT !.start = s] :
             s \in {StartAbsent, StartNonStr, StartBad, IsoTz(12, 9, 0),
                    IsoSpace(12, 9, 0), IsoSpace(12, 9, 10)} }
    \cup { [Nine EXCEPT !.slot_duration = d] : d \in {Absent, Null, JInt(10)} }

WithId(r, i) ==
    [id |-> i, status |-> r.status, patient_id |-> r.patient_id,
     start |-> r.start, slot_duration |-> r.slot_duration]

\* the lists of at most MaxAppointments records, ids 1, 2, ... in file order
AppointmentLists ==
    UNION { { [i \in 1..m |-> WithId(f[i], i)] : f \in [1..m -> RecordShapes] } :
              m \in 0..MaxAppointments }

(* ---------------------------- state machine --------------------------- *)

\* the generator script is not run while the queries are served
GenNotRunning ==
    /\ patients_exists = FALSE /\ patients = <<>> /\ gen_pc = "idle"
    /\ appointments_12_12 = <<>> /\ appointments_12_15 = <<>> /\ all_appointments = <<>>

NoCall == [op |-> "none", patient_id |-> 0, utc_now |-> UtcAt(0, 0, 0), now |-> DT(0, 0, 0)]

\* the data directory before any request: appointments.json is missing, or
\* holds a list of records
Init ==
    /\ file_exists \in BOOLEAN
    /\ appointments \in (IF file_exists THEN AppointmentLists ELSE {<<>>})
    /\ call = NoCall
    /\ response = NoResponse
    /\ GenNotRunning

\* GET /api/appointments/active, the clock reading utc_now
GetActiveAppointment ==
    \E utc_now \in ClockReadings :
        /\ call' = [op |-> "active", patient_id |-> 0, utc_now |-> utc_now,
                    now |-> NormalizedNow(utc_now)]
        /\ response' = ActiveAppointmentResponse(file_exists, appointments, utc_now)
        /\ UNCHANGED <<file_exists, appointments, genvars>>

\* GET /api/patients/{patient_id}/current-appointment
GetCurrentAppointment ==
    \E utc_now \in ClockReadings, patient_id \in PatientIdArgs :
        /\ call' = [op |-> "current", patient_id |-> patient_id, utc_now |-> utc_now,
                    now |-> ServerNow(utc_now)]
        /\ response' = CurrentAppointmentResponse(file_exists, appointments,
                                                  patient_id, utc_now)
        /\ UNCHANGED <<file_exists, appointments, genvars>>

Next == GetActiveAppointment \/ GetCurrentAppointment

Spec == Init /\ [][Next]_vars

(* -------------------- scripts/generate_data.py ------------------------ *)

\* datetime.isoformat() of a naive datetime at a whole second
Isoformat(d) ==
    [t |-> "iso", date |-> d.date, sep |-> "T", time |-> d.minute, tz |-> FALSE]

\* max(a.get("id", 0) for a in existing); every record of the model has an id
MaxId(existing) ==
    CHOOSE m \in { existing[i].id : i \in DOMAIN existing } :
        \A i \in DOMAIN existing : existing[i].id <= m

\* lines 29-36: the first id to hand out, read from the file as it is now
FirstAppointmentId(exists, existing) ==
    IF exists /\ existing # <<>> THEN MaxId(existing) + 1 ELSE 1

RECURSIVE TimeSlots(_, _, _)
\* the loop of lines 43-52
TimeSlots(current_time, end_time, appointment_id) ==
    IF Abs(current_time) < Abs(end_time)
    THEN << [id |-> appointment_id, status |-> "available",
             patient_id |-> Null, start |-> Isoformat(current_time),
             slot_duration |-> JInt(GenSlotDuration)] >>
         \o TimeSlots(PlusMinutes(current_time, GenSlotDuration), end_time,
                      appointment_id + 1)
    ELSE <<>>

\* generate_appointments_for_date(date_str) against the appointments file
GenerateAppointmentsForDate(date, exists, existing) ==
    TimeSlots(DT(date, StartHour, 0), DT(date, EndHour, 0),
              FirstAppointmentId(exists, existing))

\* max((p.get("id", 0) for p in patients), default=0)
MaxPatientId(ps) ==
    IF ps = <<>> THEN 0
    ELSE CHOOSE m \in { ps[i] : i \in DOMAIN ps } : \A i \in DOMAIN ps : ps[i] <= m

\* lines 106-110 and 113-117: every other slot is booked, the patients taken
\* in turn, booked_count being the number of slots booked before this list
BookEveryOther(slots, patient_ids, booked_count) ==
    [i \in 1..Len(slots) |->
        IF (i - 1) % 2 = 0 /\ patient_ids # <<>>
        THEN [slots[i] EXCEPT
                !.status = "booked",
                !.patient_id =
                    JInt(patient_ids[((booked_count + (i - 1) \div 2)
                                        % Len(patient_ids)) + 1])]
        ELSE slots[i]]

\* the number of slots BookEveryOther books in a list
BookedIn(slots, patient_ids) ==
    IF patient_ids = <<>> THEN 0 ELSE (Len(slots) + 1) \div 2

\* sequences of pairwise distinct ids
IdLists ==
    UNION { { f \in [1..m -> 1..MaxExistingId] :
                \A i, j \in 1..m : f[i] = f[j] => i = j } :
            m \in 0..MaxAppointments }

\* the data directory before a run: each file is missing or holds records
\* with pairwise distinct ids
GenInit ==
    /\ file_exists \in BOOLEAN
    /\ appointments \in
          (IF file_exists
           THEN { [i \in DOMAIN f |-> WithId(Booked(IsoT(11, 9, 0)), f[i])] : f \in IdLists }
           ELSE {<<>>})
    /\ patients_exists \in BOOLEAN
    /\ patients \in (IF patients_exists THEN IdLists ELSE {<<>>})
    /\ gen_pc = "start"
    /\ appointments_12_12 = <<>> /\ appointments_12_15 = <<>> /\ all_appointments = <<>>
    /\ call = NoCall
    /\ response = NoResponse

\* main, lines 57-74: load the patients, add the new ones, save
GenAddPatients ==
    /\ gen_pc = "start"
    /\ patients' =
          (IF patients_exists THEN patients ELSE <<>>)
          \o [i \in 1..AdditionalPatients |->
                MaxPatientId(IF patients_exists THEN patients ELSE <<>>) + i]
    /\ patients_exists' = TRUE
    /\ gen_pc' = "patients_saved"
    /\ UNCHANGED <<file_exists, appointments, call, response,
                   appointments_12_12, appointments_12_15, all_appointments>>

\* main, line 80
GenFirstDate ==
    /\ gen_pc = "patients_saved"
    /\ appointments_12_12' = GenerateAppointmentsForDate(12, file_exists, appointments)
    /\ gen_pc' = "generated_12_12"
    /\ UNCHANGED <<file_exists, appointments, call, response,
                   patients_exists, patients, appointments_12_15, all_appointments>>

\* main, line 81
GenSecondDate ==
    /\ gen_pc = "generated_12_12"
    /\ appointments_12_15' = GenerateAppointmentsForDate(15, file_exists, appointments)
    /\ gen_pc' = "generated_12_15"
    /\ UNCHANGED <<file_exists, appointments, call, response,
                   patients_exists, patients, appointments_12_12, all_appointments>>

\* main, lines 84-95: load the existing records, append both lists, save
GenSaveAppointments ==
    /\ gen_pc = "generated_12_15"
    /\ all_appointments' =
          (IF file_exists THEN appointments ELSE <<>>)
          \o appointments_12_12 \o appointments_12_15
    /\ appointments' = all_appointments'
    /\ file_exists' = TRUE
    /\ gen_pc' = "saved"
    /\ UNCHANGED <<call, response, patients_exists, patients,
                   appointments_12_12, appointments_12_15>>

\* main, lines 102-121: book every other slot of both dates and save again;
\* the slots are the same objects in all_appointments and in the two lists
GenBookAndSave ==
    /\ gen_pc = "saved"
    /\ appointments_12_12' = BookEveryOther(appointments_12_12, patients, 0)
    /\ appointments_12_15' =
          BookEveryOther(appointments_12_15, patients,
                         BookedIn(appointments_12_12, patients))
    /\ all_appointments' =
          SubSeq(all_appointments, 1,
                 Len(all_appointments) - Len(appointments_12_12)
                    - Len(appointments_12_15))
          \o appointments_12_12' \o appointments_12_15'
    /\ appointments' = all_appointments'
    /\ gen_pc' = "done"
    /\ UNCHANGED <<file_exists, call, response, patients_exists, patients>>

GenNext ==
    \/ GenAddPatients
    \/ GenFirstDate
    \/ GenSecondDate
    \/ GenSaveAppointments
    \/ GenBookAndSave

\* one run of the generator script on a data directory
GenSpec == GenInit /\ [][GenNext]_vars

(* ------------------- vocabulary of the properties --------------------- *)

ActiveCall == call.op = "active"

CurrentCall == call.op = "current"

Returned == response.body[1]

ReturnsRecord == response.kind = "ok" /\ response.shape = "object"

\* the start of a record as an instant, for a start that is a naive timestamp
NaiveStart(r) == r.start.t = "iso" /\ ~r.start.tz

StartMinutes(r) == r.start.date * (24 * 60) + r.start.time

\* the slot duration the specification gives a record: 30 when missing or null
SpecDuration(r) == IF r.slot_duration.t = "int" THEN r.slot_duration.v ELSE 30

\* n lies in [start, start + duration)
WindowHas(r, n) ==
    NaiveStart(r) /\ StartMinutes(r) <= n /\ n < StartMinutes(r) + SpecDuration(r)

\* booked, with a patient_id that is present and not null
BookedAssigned(r) == r.status = "booked" /\ r.patient_id.t = "int"

\* a record no reading of the specification could call malformed or
\* unassigned: booked, a non-zero patient, a naive timestamp, a numeric or
\* missing duration
Sound(r) ==
    /\ r.status = "booked" /\ r.patient_id.t = "int" /\ r.patient_id.v # 0
    /\ NaiveStart(r) /\ r.slot_duration.t \in {"int", "absent"}

\* the instant the active query compares against, in minutes
NowMinutes == Abs(call.now)

Records == { appointments[i] : i \in DOMAIN appointments }

Orderings(n) == { p \in [1..n -> 1..n] : \A i, j \in 1..n : p[i] = p[j] => i = j }

(* ------------------------------ C1 ------------------------------------ *)

\* C1: a successful get_active_appointment answers with the empty object or
\* with exactly one record, which is a record of the input list, unchanged.
C1_OneInputRecordOrEmpty ==
    (ActiveCall /\ response.kind = "ok") =>
        \/ response.shape = "empty_object" /\ response.body = <<>>
        \/ /\ response.shape = "object"
           /\ Len(response.body) = 1
           /\ \E i \in DOMAIN appointments : appointments[i] = Returned

\* two records of the list match and one of them is the answer
C1_Witness ==
    /\ ActiveCall /\ ReturnsRecord
    /\ Cardinality({ r \in Records : Sound(r) /\ WindowHas(r, NowMinutes) }) = 2

(* ------------------------------ C2 ------------------------------------ *)

\* C2: a returned record is booked, has a patient_id, and
\* start <= normalized_now < start + slot_duration (30 when the key is
\* missing); the end of the window is excluded.
C2_ReturnedRecordInHalfOpenWindow ==
    (ActiveCall /\ ReturnsRecord) =>
        /\ Returned.status = "booked"
        /\ Returned.patient_id.t = "int"
        /\ NaiveStart(Returned)
        /\ Returned.slot_duration.t \in {"int", "absent"}
        /\ StartMinutes(Returned) <= NowMinutes
        /\ NowMinutes < StartMinutes(Returned) + SpecDuration(Returned)

\* the answer is a record that starts at normalized_now, while the list also
\* holds an eligible record whose window ends at normalized_now
C2_Witness ==
    /\ ActiveCall /\ ReturnsRecord
    /\ StartMinutes(Returned) = NowMinutes
    /\ \E r \in Records :
          Sound(r) /\ StartMinutes(r) + SpecDuration(r) = NowMinutes

(* ------------------------------ C3 ------------------------------------ *)

\* C3: when two or more eligible records have windows containing
\* normalized_now, the answer is the one with the temporally earliest start,
\* and it is the same for every permutation of the input list.
C3_EarliestStartAnyOrder ==
    (/\ ActiveCall /\ response.kind = "ok"
     /\ Cardinality({ r \in Records : Sound(r) /\ WindowHas(r, NowMinutes) }) >= 2) =>
        /\ ReturnsRecord
        /\ \A r \in Records :
              (Sound(r) /\ WindowHas(r, NowMinutes)) =>
                  StartMinutes(Returned) <= StartMinutes(r)
        /\ \A p \in Orderings(Len(appointments)) :
              ActiveAppointmentResponse(
                  file_exists,
                  [i \in 1..Len(appointments) |-> appointments[p[i]]],
                  call.utc_now) = response

(* ------------------------------ C4 ------------------------------------ *)

\* a start that is missing, not a string, not ISO-formatted, or not
\* comparable with the naive normalized instant
UnparseableStart(r) == ~NaiveStart(r)

\* C4: a list that holds a record with an unparseable start together with a
\* valid eligible record whose window contains normalized_now is answered
\* with a valid matching record, not with an error.
C4_MalformedStartSkipped ==
    (/\ ActiveCall /\ file_exists
     /\ \E r \in Records : UnparseableStart(r)
     /\ \E r \in Records : Sound(r) /\ WindowHas(r, NowMinutes)
     /\ \A r \in Records : UnparseableStart(r) \/ Sound(r)) =>
        /\ ReturnsRecord
        /\ Sound(Returned) /\ WindowHas(Returned, NowMinutes)

(* ------------------------------ C5 ------------------------------------ *)

\* C5: a booked, assigned record with slot_duration null and
\* start <= normalized_now < start + 30 is returned as active; the call does
\* not fail.
C5_NullDurationIsThirty ==
    (/\ ActiveCall /\ file_exists
     /\ \E r \in Records :
          /\ r.status = "booked" /\ Truthy(r.patient_id) /\ NaiveStart(r)
          /\ r.slot_duration = Null /\ WindowHas(r, NowMinutes)
     /\ \A r \in Records : NaiveStart(r)) =>
        ReturnsRecord

(* ------------------------------ C6 ------------------------------------ *)

\* C6: every booked record with a non-null integer patient_id, 0 included,
\* is kept for matching: when such a record with a parseable start has a
\* window containing normalized_now, a successful call answers with a record.
C6_ZeroPatientIdKept ==
    (/\ ActiveCall /\ response.kind = "ok"
     /\ \E r \in Records :
          BookedAssigned(r) /\ r.slot_duration.t \in {"int", "absent"}
          /\ WindowHas(r, NowMinutes)) =>
        ReturnsRecord

(* ------------------------------ C7 ------------------------------------ *)

\* C7: when the list is empty, or holds no booked and assigned record, or
\* no eligible record's window contains normalized_now, the answer is the
\* empty object and no error.
C7_NoMatchIsEmptyResult ==
    (/\ ActiveCall /\ file_exists
     /\ \A r \in Records : ~(BookedAssigned(r) /\ WindowHas(r, NowMinutes))) =>
        response = OkEmptyDict

(* ------------------------------ C8 ------------------------------------ *)

\* C8: the instant compared against the record starts is the clock's UTC
\* instant minus exactly 5 hours, without a timezone marker, also when the
\* subtraction crosses midnight; a returned record's window holds it.
C8_NowIsUtcMinusFiveHours ==
    ActiveCall =>
        /\ ~call.now.aware
        /\ call.now.minute \in 0..(24 * 60 - 1)
        /\ call.now.date * (24 * 60) + call.now.minute
              = call.utc_now.date * (24 * 60) + call.utc_now.minute - 5 * 60
        /\ ReturnsRecord =>
              WindowHas(Returned,
                        call.utc_now.date * (24 * 60) + call.utc_now.minute - 5 * 60)

\* the normalized instant falls on the day before the UTC date, and a record
\* of that day is the answer
C8_Witness ==
    /\ ActiveCall /\ ReturnsRecord
    /\ call.now.date = call.utc_now.date - 1
    /\ Returned.start.date = call.now.date

(* ------------------------------ C9 ------------------------------------ *)

\* C9: with the data file missing, get_active_appointment answers with no
\* record and no empty result but with status 500 and a message.
C9_MissingFileIsServerError ==
    (ActiveCall /\ ~file_exists) =>
        /\ response.kind = "error"
        /\ response.status = 500
        /\ response.body = <<>>
        /\ response.detail # <<>>

\* the error of load_json_data went through the handler's catch-all
C9_Witness ==
    /\ ActiveCall /\ ~file_exists
    /\ response.detail = <<"Error fetching active appointment", "HTTPException">>

(* ------------------------------ C10 ----------------------------------- *)

\* the records get_current_appointment(patient_id) chooses among
Upcoming ==
    { r \in Records :
        /\ r.status = "booked" /\ r.patient_id = JInt(call.patient_id)
        /\ NaiveStart(r)
        /\ StartMinutes(r) >= call.utc_now.date * (24 * 60) + call.utc_now.minute }

\* C10: get_current_appointment(patient_id) compares against the raw
\* current instant: a successful call answers with the earliest-starting
\* booked record of the patient with start >= now, and with None when there
\* is none.
C10_EarliestUpcoming ==
    (CurrentCall /\ response.kind = "ok") =>
        IF Upcoming = {} THEN response = OkNone
        ELSE /\ ReturnsRecord
             /\ Returned \in Upcoming
             /\ \A r \in Upcoming : StartMinutes(Returned) <= StartMinutes(r)

(* ------------------------------ C11 ----------------------------------- *)

\* C11: after a run of the generator's main() on an appointments file whose
\* ids are pairwise distinct, the ids of all records of the written file
\* are pairwise distinct.
C11_WrittenIdsPairwiseDistinct ==
    gen_pc \in {"saved", "done"} =>
        \A i, j \in DOMAIN appointments :
            appointments[i].id = appointments[j].id => i = j

====
